---- MODULE Spec2Model ----
(***************************************************************************)
(* A model of the TuffieLang tokenizer (src/src/lexer.ts).                 *)
(*                                                                         *)
(* A string is a sequence of one-character strings, as in the lexer, which *)
(* works on input.split("").  A token is a record with a type and, when    *)
(* the lexeme is not empty, a value (generateToken drops a falsy value).   *)
(* One action is one iteration of the loop of Lexer.tokenize, one per      *)
(* recognition path of Lexer.evalToken.                                    *)
(***************************************************************************)
EXTENDS Naturals, Sequences, FiniteSets

VARIABLES
    source,   \* the constructor's argument, never changed afterwards
    input,    \* this.input: the unconsumed characters
    tokens,   \* this.tokens: the array tokenize() pushes to and returns
    pc,       \* "idle" | "loop" | "returned" | "thrown"
    calls,    \* number of tokenize() calls started on this instance
    results   \* what each completed call handed to its caller, as seen at return

vars == <<source, input, tokens, pc, calls, results>>

----------------------------------------------------------------------------
(* Bounds of the model *)

\* an input is the concatenation of at most MaxWords words of Words
MaxWords == 3
\* tokenize() is called at most MaxCalls times on one instance
MaxCalls == 2

----------------------------------------------------------------------------
(* Character classes: the regular expressions of lexer.ts lines 190-195 *)

\* /[a-zA-Z]/
isAlphaSet ==
    { "a","b","c","d","e","f","g","h","i","j","k","l","m",
      "n","o","p","q","r","s","t","u","v","w","x","y","z",
      "A","B","C","D","E","F","G","H","I","J","K","L","M",
      "N","O","P","Q","R","S","T","U","V","W","X","Y","Z" }

\* /\d/
isDigitSet == { "0","1","2","3","4","5","6","7","8","9" }

\* /\s/: the ASCII white space characters a TLA+ string can hold (the
\* expression also matches vertical tab and the Unicode space characters)
isWhitespaceSet == { " ", "\t", "\n", "\r", "\f" }

isAlpha(char) == char \in isAlphaSet
isDigit(char) == char \in isDigitSet
isWhitespace(char) == char \in isWhitespaceSet
isUnderscore(char) == char = "_"
isSymbol(char) == isAlpha(char) \/ isUnderscore(char)

\* the case labels of the switch in evalToken
SingleCharLexemes == { ";", "*", "+", "/", "_", "(", ")", "{", "}" }

\* TokenTypeReverseLookup, for the keys the lexer looks up
TokenTypeReverseLookup(lexeme) ==
    CASE lexeme = ";" -> "SEMICOLON"
      [] lexeme = "*" -> "MULTIPLICATION"
      [] lexeme = "+" -> "ADD"
      [] lexeme = "/" -> "DIVISION"
      [] lexeme = "_" -> "UNDERSCORE"
      [] lexeme = "(" -> "L_PAREN"
      [] lexeme = ")" -> "R_PAREN"
      [] lexeme = "{" -> "L_BRACE"
      [] lexeme = "}" -> "R_BRACE"

----------------------------------------------------------------------------
(* Array helpers *)

Min(a, b) == IF a < b THEN a ELSE b

\* input.slice(0, n)
Slice(in, n) == SubSeq(in, 1, Min(n, Len(in)))

\* what is left of input after input.splice(0, n), or after n shift() calls
Drop(in, n) == SubSeq(in, Min(n, Len(in)) + 1, Len(in))

\* arr.filter((char) => char === c).length
RECURSIVE CountOf(_, _)
CountOf(arr, c) ==
    IF arr = <<>> THEN 0
    ELSE (IF Head(arr) = c THEN 1 ELSE 0) + CountOf(Tail(arr), c)

\* number of iterations of a loop "while (input.length > 0 && input[0] in S) shift"
RECURSIVE RunOf(_, _)
RunOf(in, S) ==
    IF in = <<>> \/ Head(in) \notin S THEN 0 ELSE 1 + RunOf(Tail(in), S)

\* number of iterations of "while (input.length > 0 && input[0] != quote) shift"
RECURSIVE RunUntil(_, _)
RunUntil(in, quote) ==
    IF in = <<>> \/ Head(in) = quote THEN 0 ELSE 1 + RunUntil(Tail(in), quote)

----------------------------------------------------------------------------
(* Tokens *)

\* Lexer.generateToken: an empty (falsy) value is left out of the token
generateToken(value, type) ==
    IF value = <<>> THEN [type |-> type] ELSE [type |-> type, value |-> value]

\* the token pushed at the end of tokenize
EOFToken == generateToken(<<>>, "EOF")

\* What a parse function does: the input it leaves, the tokens tokenize pushes
\* for it (none when it returns undefined) and whether it returned an Error.
Parsed(rest, token) == [input |-> rest, out |-> <<token>>, error |-> FALSE]
ParsedNothing(rest) == [input |-> rest, out |-> <<>>, error |-> FALSE]
ParsedError(rest)   == [input |-> rest, out |-> <<>>, error |-> TRUE]

----------------------------------------------------------------------------
(* The lexeme handlers: satisfies inspects the input, parse consumes it *)

QuoteHandlerSatisfies(in) == in # <<>> /\ (Head(in) = "\"" \/ Head(in) = "'")

\* QuoteHandlerParse without the comparison of endQuote with quote
QuoteHandlerParseUnchecked(in) ==
    LET body == Tail(in)
        n == RunUntil(body, Head(in))
    IN  Parsed(Drop(body, n + 1), generateToken(Slice(body, n), "STRING"))

QuoteHandlerParse(in) ==
    LET quote == Head(in)                       \* getCharAndRemove
        body == Tail(in)
        n == RunUntil(body, quote)
        identifierValue == Slice(body, n)
        rest == Drop(body, n)
    IN  IF rest = <<>> THEN ParsedError(rest)   \* endQuote is undefined
        ELSE IF Head(rest) # quote THEN ParsedError(Tail(rest))
        ELSE Parsed(Tail(rest), generateToken(identifierValue, "STRING"))

SpaceHandlerSatisfies(in) == in # <<>> /\ isWhitespace(Head(in))

\* SpaceHandlerParse without the shift in its loop body
SpaceHandlerParseNoShift(in) == ParsedNothing(in)

SpaceHandlerParse(in) == ParsedNothing(Drop(in, RunOf(in, isWhitespaceSet)))

EqualHandlerSatisfies(in) == in # <<>> /\ Head(in) = "="

EqualHandlerParse(in) ==
    LET equalCount == CountOf(Slice(in, 3), "=")
        spliced == equalCount > 0 /\ equalCount <= 3
        lexeme == IF spliced THEN Slice(in, equalCount) ELSE <<>>
        rest == IF spliced THEN Drop(in, equalCount) ELSE in
    IN  CASE lexeme = <<"=">> -> Parsed(rest, generateToken(lexeme, "EQUAL"))
          [] lexeme = <<"=", "=">> -> Parsed(rest, generateToken(lexeme, "DOUBLE_EQUAL"))
          [] lexeme = <<"=", "=", "=">> -> Parsed(rest, generateToken(lexeme, "TRIPLE_EQUAL"))
          [] OTHER -> ParsedNothing(rest)

MinusHandlerSatisfies(in) == in # <<>> /\ Head(in) = "-"

MinusHandlerParse(in) ==
    LET minusCount == CountOf(Slice(in, 2), "-")
        spliced == minusCount > 0 /\ minusCount <= 3
        lexeme == IF spliced THEN Slice(in, minusCount) ELSE <<>>
        rest == IF spliced THEN Drop(in, minusCount) ELSE in
    IN  CASE lexeme = <<"-">> -> Parsed(rest, generateToken(lexeme, "MINUS"))
          [] lexeme = <<"-", "-">> -> Parsed(rest, generateToken(lexeme, "DOUBLE_MINUS"))
          [] OTHER -> ParsedError(rest)

NumberHandlerSatisfies(in) == in # <<>> /\ isDigit(Head(in))

NumberHandlerParse(in) ==
    LET n == RunOf(in, isDigitSet)
    IN  Parsed(Drop(in, n), generateToken(Slice(in, n), "NUMBER"))

\* /^(let)\s.*/ against the first four characters
LetHandlerSatisfies(in) ==
    /\ Len(in) >= 3
    /\ Len(in) >= 4
    /\ Slice(in, 3) = <<"l", "e", "t">>
    /\ isWhitespace(in[4])

LetHandlerParse(in) == Parsed(Drop(in, 3), generateToken(Slice(in, 3), "LET"))

\* /^(const)\s.*/ against the first six characters
ConstHandlerSatisfies(in) ==
    /\ Len(in) >= 5
    /\ Len(in) >= 6
    /\ Slice(in, 5) = <<"c", "o", "n", "s", "t">>
    /\ isWhitespace(in[6])

ConstHandlerParse(in) == Parsed(Drop(in, 5), generateToken(Slice(in, 5), "CONST"))

\* /fn/ against the first two characters
FunctionHandlerSatisfies(in) == Len(in) >= 2 /\ Slice(in, 2) = <<"f", "n">>

FunctionHandlerParse(in) == Parsed(Drop(in, 2), generateToken(Slice(in, 2), "FUNCTION"))

SymbolHandlerSatisfies(in) == in # <<>> /\ isSymbol(Head(in))

SymbolHandlerParse(in) ==
    LET n == 1 + RunOf(Tail(in), isAlphaSet \cup {"_"})
    IN  Parsed(Drop(in, n), generateToken(Slice(in, n), "SYMBOL"))

\* the first branch of evalToken: the character is shifted and looked up
SingleCharSatisfies(in) == in # <<>> /\ Head(in) \in SingleCharLexemes

SingleCharParse(in) ==
    Parsed(Tail(in), generateToken(<<Head(in)>>, TokenTypeReverseLookup(Head(in))))

\* evalToken with SymbolHandler tried before the keyword handlers
evalTokenSymbolFirst(in) ==
    IF SingleCharSatisfies(in) THEN "single"
    ELSE IF QuoteHandlerSatisfies(in) THEN "quote"
    ELSE IF SpaceHandlerSatisfies(in) THEN "space"
    ELSE IF EqualHandlerSatisfies(in) THEN "equal"
    ELSE IF MinusHandlerSatisfies(in) THEN "minus"
    ELSE IF NumberHandlerSatisfies(in) THEN "number"
    ELSE IF SymbolHandlerSatisfies(in) THEN "symbol"
    ELSE IF LetHandlerSatisfies(in) THEN "let"
    ELSE IF ConstHandlerSatisfies(in) THEN "const"
    ELSE IF FunctionHandlerSatisfies(in) THEN "fn"
    ELSE "none"

\* Lexer.evalToken: the recognition path taken for a non-empty input, the
\* switch first, then lexemeHandlers in the constructor's order, SymbolHandler
\* last; "none" is the throw at the end.
evalToken(in) ==
    IF SingleCharSatisfies(in) THEN "single"
    ELSE IF QuoteHandlerSatisfies(in) THEN "quote"
    ELSE IF SpaceHandlerSatisfies(in) THEN "space"
    ELSE IF EqualHandlerSatisfies(in) THEN "equal"
    ELSE IF MinusHandlerSatisfies(in) THEN "minus"
    ELSE IF NumberHandlerSatisfies(in) THEN "number"
    ELSE IF LetHandlerSatisfies(in) THEN "let"
    ELSE IF ConstHandlerSatisfies(in) THEN "const"
    ELSE IF FunctionHandlerSatisfies(in) THEN "fn"
    ELSE IF SymbolHandlerSatisfies(in) THEN "symbol"
    ELSE "none"

\* the parse function evalToken returns, applied to the input
tokenParser(path, in) ==
    CASE path = "single" -> SingleCharParse(in)
      [] path = "quote"  -> QuoteHandlerParse(in)
      [] path = "space"  -> SpaceHandlerParse(in)
      [] path = "equal"  -> EqualHandlerParse(in)
      [] path = "minus"  -> MinusHandlerParse(in)
      [] path = "number" -> NumberHandlerParse(in)
      [] path = "let"    -> LetHandlerParse(in)
      [] path = "const"  -> ConstHandlerParse(in)
      [] path = "fn"     -> FunctionHandlerParse(in)
      [] path = "symbol" -> SymbolHandlerParse(in)
      [] OTHER           -> ParsedError(in)

----------------------------------------------------------------------------
(* The inputs of the model *)

\* lexemes the inputs are built from: the keywords, a letter, an underscore,
\* a separator, two kinds of white space, the operators with a family, a
\* digit, both quotes, and a character no recognition path matches
Words ==
    { <<"l", "e", "t">>, <<"c", "o", "n", "s", "t">>, <<"f", "n">>,
      <<"x">>, <<"_">>, <<";">>, <<" ">>, <<"\n">>, <<"=">>, <<"-">>,
      <<"7">>, <<"\"">>, <<"'">>, <<"^">> }

RECURSIVE InputsOf(_)
InputsOf(n) ==
    IF n = 0 THEN { <<>> }
    ELSE LET shorter == InputsOf(n - 1)
         IN  shorter \cup { w \o s : w \in Words, s \in shorter }

Inputs == InputsOf(MaxWords)

----------------------------------------------------------------------------
(* The lexer *)

\* new Lexer(input)
Init ==
    /\ source \in Inputs
    /\ input = source
    /\ tokens = <<>>
    /\ pc = "idle"
    /\ calls = 0
    /\ results = <<>>

\* tokenize() is entered on the instance as constructed
Tokenize ==
    /\ pc = "idle"
    /\ pc' = "loop"
    /\ calls' = calls + 1
    /\ UNCHANGED <<source, input, tokens, results>>

\* tokenize() is entered again on an instance whose earlier call has ended
TokenizeAgain ==
    /\ pc \in {"returned", "thrown"}
    /\ calls < MaxCalls
    /\ pc' = "loop"
    /\ calls' = calls + 1
    /\ UNCHANGED <<source, input, tokens, results>>

\* what the loop does with the result of the parse function (lines 113-117):
\* an Error it returns is thrown, a token it returns is pushed
Push(tokenOrErr) ==
    /\ input' = tokenOrErr.input
    /\ tokens' = IF tokenOrErr.error THEN tokens ELSE tokens \o tokenOrErr.out
    /\ pc' = IF tokenOrErr.error THEN "thrown" ELSE "loop"
    /\ UNCHANGED <<source, calls, results>>

\* one iteration of the while loop, for each recognition path of evalToken

SingleChar ==
    /\ pc = "loop"
    /\ input # <<>>
    /\ evalToken(input) = "single"
    /\ Push(SingleCharParse(input))

Quote ==
    /\ pc = "loop"
    /\ input # <<>>
    /\ evalToken(input) = "quote"
    /\ Push(QuoteHandlerParse(input))

Space ==
    /\ pc = "loop"
    /\ input # <<>>
    /\ evalToken(input) = "space"
    /\ Push(SpaceHandlerParse(input))

Equal ==
    /\ pc = "loop"
    /\ input # <<>>
    /\ evalToken(input) = "equal"
    /\ Push(EqualHandlerParse(input))

Minus ==
    /\ pc = "loop"
    /\ input # <<>>
    /\ evalToken(input) = "minus"
    /\ Push(MinusHandlerParse(input))

Number ==
    /\ pc = "loop"
    /\ input # <<>>
    /\ evalToken(input) = "number"
    /\ Push(NumberHandlerParse(input))

Let ==
    /\ pc = "loop"
    /\ input # <<>>
    /\ evalToken(input) = "let"
    /\ Push(LetHandlerParse(input))

Const ==
    /\ pc = "loop"
    /\ input # <<>>
    /\ evalToken(input) = "const"
    /\ Push(ConstHandlerParse(input))

Function ==
    /\ pc = "loop"
    /\ input # <<>>
    /\ evalToken(input) = "fn"
    /\ Push(FunctionHandlerParse(input))

Symbol ==
    /\ pc = "loop"
    /\ input # <<>>
    /\ evalToken(input) = "symbol"
    /\ Push(SymbolHandlerParse(input))

\* NoParser skipping the character instead of throwing
NoParserSkips ==
    /\ pc = "loop"
    /\ input # <<>>
    /\ evalToken(input) = "none"
    /\ input' = Tail(input)
    /\ UNCHANGED <<source, tokens, pc, calls, results>>

\* no handler is satisfied: evalToken throws before anything is consumed
NoParser ==
    /\ pc = "loop"
    /\ input # <<>>
    /\ evalToken(input) = "none"
    /\ pc' = "thrown"
    /\ UNCHANGED <<source, input, tokens, calls, results>>

\* Finish returning this.tokens without the EOF token
FinishWithoutEOF ==
    /\ pc = "loop"
    /\ input = <<>>
    /\ pc' = "returned"
    /\ results' = Append(results, tokens)
    /\ UNCHANGED <<source, input, tokens, calls>>

\* the loop has ended: the EOF token is pushed and this.tokens is returned
\* (the break on a falsy input[0] is never taken: split("") gives no empty string)
Finish ==
    /\ pc = "loop"
    /\ input = <<>>
    /\ tokens' = Append(tokens, EOFToken)
    /\ pc' = "returned"
    /\ results' = Append(results, tokens')
    /\ UNCHANGED <<source, input, calls>>

Step ==
    \/ SingleChar
    \/ Quote
    \/ Space
    \/ Equal
    \/ Minus
    \/ Number
    \/ Let
    \/ Const
    \/ Function
    \/ Symbol
    \/ NoParser
    \/ Finish

\* one call of tokenize() on a new instance
Next == Tokenize \/ Step

Spec == Init /\ [][Next]_vars

\* the same, run to its end
FairSpec == Spec /\ WF_vars(Next)

\* tokenize() called up to MaxCalls times on the same instance
NextRepeat == Tokenize \/ Step \/ TokenizeAgain

SpecRepeat == Init /\ [][NextRepeat]_vars

----------------------------------------------------------------------------
(* tokenize as a function of the input: the loop of Lexer.tokenize run on a  *)
(* new instance, for claims that compare the results of two inputs           *)

Failure == [ok |-> FALSE, tokens |-> <<>>]

RECURSIVE tokenizeFrom(_, _)
tokenizeFrom(in, toks) ==
    IF in = <<>> THEN [ok |-> TRUE, tokens |-> Append(toks, EOFToken)]
    ELSE LET path == evalToken(in)
             tokenOrErr == tokenParser(path, in)
         IN  IF path = "none" \/ tokenOrErr.error THEN Failure
             ELSE tokenizeFrom(tokenOrErr.input, toks \o tokenOrErr.out)

tokenize(src) == tokenizeFrom(src, <<>>)

----------------------------------------------------------------------------
(* Vocabulary of the claims *)

Range(seq) == { seq[i] : i \in 1..Len(seq) }

Quotes == { "\"", "'" }

Finished == pc \in {"returned", "thrown"}

\* a token with a value
Tok(type, value) == [type |-> type, value |-> value]

LetWord   == <<"l", "e", "t">>
ConstWord == <<"c", "o", "n", "s", "t">>
FnWord    == <<"f", "n">>
Keywords  == { LetWord, ConstWord, FnWord }

KeywordType(k) ==
    CASE k = LetWord -> "LET" [] k = ConstWord -> "CONST" [] k = FnWord -> "FUNCTION"

\* s starts with the word k and goes on with one more character, of class S
StartsWithThen(s, k, S) ==
    /\ Len(s) > Len(k)
    /\ SubSeq(s, 1, Len(k)) = k
    /\ s[Len(k) + 1] \in S

\* the characters of the model's inputs
Chars == UNION { Range(w) : w \in Words }

\* characters that can continue an identifier
IdentChars == isAlphaSet \cup {"_"}

----------------------------------------------------------------------------
(* C1: when tokenize() returns on a new instance, the sequence it returns    *)
(* holds exactly one EOF token, which is its last element.                   *)

EofOnlyLast ==
    pc = "returned" =>
        /\ Len(tokens) >= 1
        /\ tokens[Len(tokens)].type = "EOF"
        /\ \A i \in 1..(Len(tokens) - 1) : tokens[i].type # "EOF"

\* a call has returned several tokens before the EOF
EofOnlyLastWitness == pc = "returned" /\ Len(tokens) >= 3

----------------------------------------------------------------------------
(* C2 as stated: an input that starts with a keyword followed by a character *)
(* that is neither a letter nor an underscore lexes to a first token of the  *)
(* keyword's type, with the keyword as its value.                            *)

KeywordBeforeAnyBoundary ==
    \A k \in Keywords :
        (pc = "returned" /\ StartsWithThen(source, k, Chars \ IdentChars))
            => tokens[1] = Tok(KeywordType(k), k)

(* C2 amended: when let or const is followed by a white space character, or  *)
(* fn by a character that is neither a letter nor an underscore, the first   *)
(* token the lexer emits has the keyword's type and the keyword as value.    *)

KeywordBeforeWhitespace ==
    \A k \in Keywords :
        LET after == IF k = FnWord THEN Chars \ IdentChars ELSE isWhitespaceSet
        IN  (tokens # <<>> /\ StartsWithThen(source, k, after))
                => tokens[1] = Tok(KeywordType(k), k)

\* const, then white space, then more input, all of it lexed
KeywordBeforeWhitespaceWitness ==
    /\ pc = "returned"
    /\ StartsWithThen(source, ConstWord, isWhitespaceSet)
    /\ Len(tokens) >= 3
    /\ tokens[1].type = "CONST"

----------------------------------------------------------------------------
(* C3: a non-empty input of letters and underscores that is not a keyword    *)
(* lexes to one SYMBOL token carrying the whole input, followed by EOF.      *)

IdentifierIsOneSymbol ==
    (/\ Finished
     /\ source # <<>>
     /\ Range(source) \subseteq IdentChars
     /\ source \notin Keywords)
        => (pc = "returned" /\ tokens = <<Tok("SYMBOL", source), EOFToken>>)

----------------------------------------------------------------------------
(* C4: when the loop is at a quote character that does not occur again in    *)
(* the rest of the input, the call throws: no token is pushed for the open   *)
(* string and nothing is returned.                                           *)

AtUnterminatedQuote ==
    /\ pc = "loop"
    /\ input # <<>>
    /\ Head(input) \in Quotes
    /\ Head(input) \notin Range(Tail(input))

UnterminatedQuoteThrows ==
    [][AtUnterminatedQuote =>
          (pc' = "thrown" /\ tokens' = tokens /\ results' = results)]_vars

\* the call threw at the end of the input, after tokens had been pushed: only
\* the quote handler throws with the input used up
UnterminatedQuoteWitness ==
    /\ pc = "thrown"
    /\ input = <<>>
    /\ tokens # <<>>
    /\ \E q \in Quotes : CountOf(source, q) = 1

----------------------------------------------------------------------------
(* C5: when the first unconsumed character is one no recognition path        *)
(* matches, the call throws there: the character stays in the input, no      *)
(* token is pushed and nothing is returned.                                  *)

Recognised ==
    SingleCharLexemes \cup isWhitespaceSet \cup Quotes \cup {"=", "-"}
        \cup isDigitSet \cup isAlphaSet

AtUnrecognised == pc = "loop" /\ input # <<>> /\ Head(input) \notin Recognised

UnrecognisedThrows ==
    [][AtUnrecognised =>
          (pc' = "thrown" /\ input' = input /\ tokens' = tokens
             /\ results' = results)]_vars

\* the call threw in the middle of the input, at such a character
UnrecognisedWitness ==
    /\ pc = "thrown"
    /\ tokens # <<>>
    /\ Len(input) >= 2
    /\ Head(input) \notin Recognised

----------------------------------------------------------------------------
(* C6: two inputs that differ only in which non-empty runs of white space    *)
(* stand outside quoted strings lex to the same tokens, or both fail.        *)

\* runs of white space a run may be replaced by
WhitespaceRuns == { <<" ">>, <<"\n">>, <<" ", " ">>, <<"\t", "\r">> }

\* the inputs obtained from s by replacing every run of white space outside
\* quoted strings by a run of WhitespaceRuns; open is the quote character of
\* the string the scan is in, "" outside strings
RECURSIVE Respaced(_, _)
Respaced(s, open) ==
    IF s = <<>> THEN { <<>> }
    ELSE IF open # "" THEN
        { <<Head(s)>> \o v : v \in Respaced(Tail(s), IF Head(s) = open THEN "" ELSE open) }
    ELSE IF Head(s) \in Quotes THEN
        { <<Head(s)>> \o v : v \in Respaced(Tail(s), Head(s)) }
    ELSE IF Head(s) \in isWhitespaceSet THEN
        { run \o v : run \in WhitespaceRuns,
                     v \in Respaced(Drop(s, RunOf(s, isWhitespaceSet)), "") }
    ELSE { <<Head(s)>> \o v : v \in Respaced(Tail(s), "") }

\* the outcome of the call that has ended, as tokenize(source) gives it
Outcome == IF pc = "returned" THEN [ok |-> TRUE, tokens |-> tokens] ELSE Failure

WhitespaceInsensitive ==
    Finished => \A other \in Respaced(source, "") : tokenize(other) = Outcome

----------------------------------------------------------------------------
(* C7: at '=', the equals handler consumes the run of '=' at the front of    *)
(* the input, three at most, nothing else, and pushes the token of that      *)
(* count.                                                                    *)

EqualType(n) ==
    CASE n = 1 -> "EQUAL" [] n = 2 -> "DOUBLE_EQUAL" [] n = 3 -> "TRIPLE_EQUAL"

EqualConsumesItsRun ==
    [][(pc = "loop" /\ input # <<>> /\ Head(input) = "=") =>
          LET n == Min(RunOf(input, {"="}), 3)
          IN  /\ input' = Drop(input, n)
              /\ tokens' = Append(tokens, Tok(EqualType(n), Slice(input, n)))]_vars

----------------------------------------------------------------------------
(* C8: at '-', a run of one '-' gives MINUS, a run of two gives              *)
(* DOUBLE_MINUS, and a longer run makes the call throw.                      *)

MinusRunOfThreeThrows ==
    [][(pc = "loop" /\ input # <<>> /\ Head(input) = "-") =>
          LET n == RunOf(input, {"-"})
          IN  CASE n = 1 -> tokens' = Append(tokens, Tok("MINUS", <<"-">>))
                [] n = 2 -> tokens' = Append(tokens, Tok("DOUBLE_MINUS", <<"-", "-">>))
                [] OTHER -> pc' = "thrown" /\ tokens' = tokens]_vars

----------------------------------------------------------------------------
(* C9: every iteration of the loop throws or leaves the input shorter, and   *)
(* the call ends: it returns or throws.                                      *)

IterationConsumes ==
    (pc = "loop" /\ input # <<>>) => (pc' = "thrown" \/ Len(input') < Len(input))

TokenizeTerminates == [][IterationConsumes]_vars /\ <>Finished

\* a call that took one iteration per character of a longer input has returned
TokenizeTerminatesWitness ==
    /\ pc = "returned"
    /\ Len(source) >= 3
    /\ Len(tokens) = Len(source) + 1

----------------------------------------------------------------------------
(* C10: a second tokenize() on the same instance returns a sequence equal to *)
(* the first result, and the first result (the array this.tokens, which the  *)
(* first call returned) still holds what it held when it was returned.       *)

RepeatedCallSameResult ==
    (pc = "returned" /\ Len(results) >= 2) =>
        /\ results[Len(results)] = results[1]
        /\ tokens = results[1]

====
